---- MODULE Spec2Model ----
(***************************************************************************)
(* Model of src/inventory.py: the process-wide stock_data dictionary, the  *)
(* operations add_item, remove_item, get_qty, check_low_items, load_data   *)
(* and save_data, the JSON text they exchange with the file system and the *)
(* caller-supplied log collector.                                          *)
(*                                                                         *)
(* Python values are records [type, val]; a dictionary is the sequence of  *)
(* its entries in insertion order; a file's text is a sequence of lexical  *)
(* tokens (punctuation, digits, quoted strings, white space).              *)
(***************************************************************************)
EXTENDS Integers, Sequences, FiniteSets, TLC

\* ---------------------------------------------------------------- bounds
\* the most units the items of the store hold together, and the largest
\* quantity passed to a call
MaxStock == 2
MaxQty == 2

\* --------------------------------------------------------- Python values
PyInt(n) == [type |-> "int", val |-> n]
PyTrue == [type |-> "bool", val |-> 1]
PyFloat == [type |-> "float", val |-> 1]
PyStr == [type |-> "str", val |-> 0]
PyNone == [type |-> "none", val |-> 0]

\* isinstance(v, int): bool is a subclass of int
IsInstanceInt(v) == v.type \in {"int", "bool"}

\* the operand types for which +, - and < with an int are defined
IsNumber(v) == v.type \in {"int", "bool", "float"}

\* item arguments: a str (possibly empty) or a value of another type
StrItem(s) == [type |-> "str", name |-> s]
NoneItem == [type |-> "none", name |-> "None"]

\* isinstance(item, str) and item
ValidItem(item) == item.type = "str" /\ item.name # ""

\* ------------------------------------------------- dict (insertion order)
Keys(d) == {d[i].key : i \in 1..Len(d)}

Has(d, k) == \E i \in 1..Len(d) : d[i].key = k

IndexOf(d, k) == CHOOSE i \in 1..Len(d) : d[i].key = k

\* d.get(k, default)
Get(d, k, default) == IF Has(d, k) THEN d[IndexOf(d, k)].value ELSE default

\* d[k] = v : an existing key keeps its position, a new key goes last
SetItem(d, k, v) ==
    IF Has(d, k)
    THEN [d EXCEPT ![IndexOf(d, k)] = [key |-> k, value |-> v]]
    ELSE Append(d, [key |-> k, value |-> v])

\* del d[k]
DelItem(d, k) == SelectSeq(d, LAMBDA e : e.key # k)

RECURSIVE Update(_, _)
\* d.update(other) for a mapping other
Update(d, other) ==
    IF other = <<>> THEN d
    ELSE Update(SetItem(d, Head(other).key, Head(other).value), Tail(other))

\* ------------------------------------------------------------- JSON text
\* a text is a sequence of tokens, each token a string
LBrace == "{"
RBrace == "}"
Colon == ":"
Comma == ","
Minus == "-"
Space == " "
NewlineIndent == "\n  "
Newline == "\n"

\* the strings that occur as keys or values of the texts
LiteralNames == {"a", "b", "x", ""}

\* a string in its quotes
StrLit(s) == "\"" \o s \o "\""

IsStrLit(tk) == \E s \in LiteralNames : StrLit(s) = tk

LitName(tk) == CHOOSE s \in LiteralNames : StrLit(s) = tk

IsWhite(tk) == tk \in {Space, NewlineIndent, Newline}

DigitChars == <<"0", "1", "2", "3", "4", "5", "6", "7", "8", "9">>

DigitTok(n) == DigitChars[n + 1]

IsDigit(tk) == \E i \in 1..10 : DigitChars[i] = tk

DigitVal(tk) == (CHOOSE i \in 1..10 : DigitChars[i] = tk) - 1

RECURSIVE NatToText(_)
NatToText(n) ==
    IF n < 10 THEN <<DigitTok(n)>>
    ELSE NatToText(n \div 10) \o <<DigitTok(n % 10)>>

\* the decimal text json.dump writes for an int
IntToText(n) == IF n < 0 THEN <<Minus>> \o NatToText(0 - n) ELSE NatToText(n)

\* the text of one value: an int in decimal, any other value as a literal
DumpValue(v) == IF v.type = "int" THEN IntToText(v.val) ELSE <<StrLit("x")>>

RECURSIVE DumpMembers(_, _)
DumpMembers(d, i) ==
    IF i > Len(d) THEN <<>>
    ELSE (IF i > 1 THEN <<Comma>> ELSE <<>>)
         \o <<NewlineIndent, StrLit(d[i].key.name), Colon, Space>>
         \o DumpValue(d[i].value)
         \o DumpMembers(d, i + 1)

\* json.dump(d, fh, indent=2)
JsonDump(d) ==
    IF d = <<>> THEN <<LBrace, RBrace>>
    ELSE <<LBrace>> \o DumpMembers(d, 1) \o <<Newline, RBrace>>

\* the decoder skips white space between tokens
Significant(text) == SelectSeq(text, LAMBDA tk : ~IsWhite(tk))

RECURSIVE DigitsEnd(_, _)
\* index of the first token at or after i that is not a digit
DigitsEnd(t, i) ==
    IF i <= Len(t) /\ IsDigit(t[i]) THEN DigitsEnd(t, i + 1) ELSE i

RECURSIVE DigitsValue(_, _, _)
DigitsValue(t, from, to) ==
    IF to < from THEN 0
    ELSE DigitsValue(t, from, to - 1) * 10 + DigitVal(t[to])

\* a JSON number at position i: optional minus, digits, no leading zero
ParseNumber(t, i) ==
    LET neg == i <= Len(t) /\ t[i] = Minus
        j == IF neg THEN i + 1 ELSE i
        e == DigitsEnd(t, j)
        ok == e > j /\ (t[j] = "0" => e = j + 1)
        n == DigitsValue(t, j, e - 1)
    IN  [ok |-> ok, value |-> PyInt(IF neg THEN 0 - n ELSE n), next |-> e]

\* a scalar value at position i: a string literal or a number
ParseScalar(t, i) ==
    IF i <= Len(t) /\ IsStrLit(t[i])
    THEN [ok |-> TRUE, value |-> PyStr, next |-> i + 1]
    ELSE ParseNumber(t, i)

RECURSIVE ParseMembers(_, _, _)
\* members of an object from position i on, up to the closing brace;
\* a repeated key keeps its first position and takes the last value
ParseMembers(t, i, acc) ==
    IF ~(i + 1 <= Len(t) /\ IsStrLit(t[i]) /\ t[i + 1] = Colon)
    THEN [ok |-> FALSE, obj |-> acc, next |-> i]
    ELSE LET v == ParseScalar(t, i + 2)
             acc2 == SetItem(acc, StrItem(LitName(t[i])), v.value)
         IN  IF ~v.ok \/ v.next > Len(t)
             THEN [ok |-> FALSE, obj |-> acc, next |-> i]
             ELSE IF t[v.next] = Comma
             THEN ParseMembers(t, v.next + 1, acc2)
             ELSE IF t[v.next] = RBrace
             THEN [ok |-> TRUE, obj |-> acc2, next |-> v.next + 1]
             ELSE [ok |-> FALSE, obj |-> acc, next |-> i]

\* json.load(fh): ok = FALSE stands for JSONDecodeError; a document is an
\* object (isdict, obj) or a scalar
JsonLoad(text) ==
    LET t == Significant(text)
        bad == [ok |-> FALSE, isdict |-> FALSE, obj |-> <<>>, scalar |-> PyNone]
    IN  IF t = <<>> THEN bad
        ELSE IF t[1] = LBrace
        THEN IF Len(t) >= 2 /\ t[2] = RBrace
             THEN IF Len(t) = 2
                  THEN [ok |-> TRUE, isdict |-> TRUE, obj |-> <<>>,
                        scalar |-> PyNone]
                  ELSE bad
             ELSE LET r == ParseMembers(t, 2, <<>>)
                  IN  IF r.ok /\ r.next = Len(t) + 1
                      THEN [ok |-> TRUE, isdict |-> TRUE, obj |-> r.obj,
                            scalar |-> PyNone]
                      ELSE bad
        ELSE LET r == ParseScalar(t, 1)
             IN  IF r.ok /\ r.next = Len(t) + 1
                 THEN [ok |-> TRUE, isdict |-> FALSE, obj |-> <<>>,
                       scalar |-> r.value]
                 ELSE bad

\* ----------------------------------------------------------- operations
\* Each operation is a function of the dictionary it finds (and of the file
\* it opens); it yields the dictionary it leaves, what the call returns
\* (ret: "True", "False", or the name of the exception that escapes), and
\* the level and template of the line sent to the logging sink.

\* add_item without the range test "qty < 0" of its second validation
add_item_NoRangeCheck(sd, item, qty) ==
    IF ~ValidItem(item)
    THEN [stock |-> sd, ret |-> "False", log |-> "error",
          msg |-> "item name invalid", logged |-> FALSE]
    ELSE IF ~IsInstanceInt(qty)
    THEN [stock |-> sd, ret |-> "False", log |-> "error",
          msg |-> "quantity invalid", logged |-> FALSE]
    ELSE IF ~IsNumber(Get(sd, item, PyInt(0)))
    THEN [stock |-> sd, ret |-> "TypeError", log |-> "none",
          msg |-> "none", logged |-> FALSE]
    ELSE [stock |-> SetItem(sd, item,
                            PyInt(Get(sd, item, PyInt(0)).val + qty.val)),
          ret |-> "True", log |-> "info", msg |-> "added",
          logged |-> TRUE]

\* add_item storing qty in place of stock_data.get(item, 0) + qty
add_item_Overwrites(sd, item, qty) ==
    IF ~ValidItem(item)
    THEN [stock |-> sd, ret |-> "False", log |-> "error",
          msg |-> "item name invalid", logged |-> FALSE]
    ELSE IF ~IsInstanceInt(qty) \/ qty.val < 0
    THEN [stock |-> sd, ret |-> "False", log |-> "error",
          msg |-> "quantity invalid", logged |-> FALSE]
    ELSE [stock |-> SetItem(sd, item, PyInt(qty.val)),
          ret |-> "True", log |-> "info", msg |-> "added",
          logged |-> TRUE]

\* add_item without its logs.append(log_message)
add_item_NoAppend(sd, item, qty) ==
    IF ~ValidItem(item)
    THEN [stock |-> sd, ret |-> "False", log |-> "error",
          msg |-> "item name invalid", logged |-> FALSE]
    ELSE IF ~IsInstanceInt(qty) \/ qty.val < 0
    THEN [stock |-> sd, ret |-> "False", log |-> "error",
          msg |-> "quantity invalid", logged |-> FALSE]
    ELSE IF ~IsNumber(Get(sd, item, PyInt(0)))
    THEN [stock |-> sd, ret |-> "TypeError", log |-> "none",
          msg |-> "none", logged |-> FALSE]
    ELSE [stock |-> SetItem(sd, item,
                            PyInt(Get(sd, item, PyInt(0)).val + qty.val)),
          ret |-> "True", log |-> "info", msg |-> "added",
          logged |-> FALSE]

\* add_item(item, qty, logs): logged tells whether logs.append was reached
add_item(sd, item, qty) ==
    IF ~ValidItem(item)
    THEN [stock |-> sd, ret |-> "False", log |-> "error",
          msg |-> "item name invalid", logged |-> FALSE]
    ELSE IF ~IsInstanceInt(qty) \/ qty.val < 0
    THEN [stock |-> sd, ret |-> "False", log |-> "error",
          msg |-> "quantity invalid", logged |-> FALSE]
    ELSE IF ~IsNumber(Get(sd, item, PyInt(0)))
    THEN [stock |-> sd, ret |-> "TypeError", log |-> "none",
          msg |-> "none", logged |-> FALSE]
    ELSE [stock |-> SetItem(sd, item,
                            PyInt(Get(sd, item, PyInt(0)).val + qty.val)),
          ret |-> "True", log |-> "info", msg |-> "added",
          logged |-> TRUE]

\* remove_item reduced to "stock_data[item] -= qty": no comparison with the
\* stock, no deletion
remove_item_NaiveDecrement(sd, item, qty) ==
    IF ~Has(sd, item)
    THEN [stock |-> sd, ret |-> "False", log |-> "warning",
          msg |-> "not found"]
    ELSE IF ~IsInstanceInt(qty) \/ qty.val < 0
    THEN [stock |-> sd, ret |-> "False", log |-> "error",
          msg |-> "quantity invalid"]
    ELSE IF ~IsNumber(Get(sd, item, PyNone))
    THEN [stock |-> sd, ret |-> "False", log |-> "error",
          msg |-> "type mismatch"]
    ELSE [stock |-> SetItem(sd, item,
                            PyInt(Get(sd, item, PyNone).val - qty.val)),
          ret |-> "True", log |-> "info", msg |-> "removed"]

\* remove_item emptying the dictionary (stock_data.clear()) where it should
\* delete the one key
remove_item_Clears(sd, item, qty) ==
    IF ~Has(sd, item)
    THEN [stock |-> sd, ret |-> "False", log |-> "warning",
          msg |-> "not found"]
    ELSE IF ~IsInstanceInt(qty) \/ qty.val < 0
    THEN [stock |-> sd, ret |-> "False", log |-> "error",
          msg |-> "quantity invalid"]
    ELSE IF ~IsNumber(Get(sd, item, PyNone))
    THEN [stock |-> sd, ret |-> "False", log |-> "error",
          msg |-> "type mismatch"]
    ELSE IF Get(sd, item, PyNone).val < qty.val
    THEN [stock |-> sd, ret |-> "False", log |-> "warning",
          msg |-> "insufficient stock"]
    ELSE IF Get(sd, item, PyNone).val - qty.val <= 0
    THEN [stock |-> <<>>, ret |-> "True", log |-> "info",
          msg |-> "item removed"]
    ELSE [stock |-> SetItem(sd, item,
                            PyInt(Get(sd, item, PyNone).val - qty.val)),
          ret |-> "True", log |-> "info", msg |-> "removed"]

\* remove_item validating the quantity before it looks the item up
remove_item_QtyFirst(sd, item, qty) ==
    IF ~IsInstanceInt(qty) \/ qty.val < 0
    THEN [stock |-> sd, ret |-> "False", log |-> "error",
          msg |-> "quantity invalid"]
    ELSE IF ~Has(sd, item)
    THEN [stock |-> sd, ret |-> "False", log |-> "warning",
          msg |-> "not found"]
    ELSE IF ~IsNumber(Get(sd, item, PyNone))
    THEN [stock |-> sd, ret |-> "False", log |-> "error",
          msg |-> "type mismatch"]
    ELSE IF Get(sd, item, PyNone).val < qty.val
    THEN [stock |-> sd, ret |-> "False", log |-> "warning",
          msg |-> "insufficient stock"]
    ELSE IF Get(sd, item, PyNone).val - qty.val <= 0
    THEN [stock |-> DelItem(sd, item), ret |-> "True", log |-> "info",
          msg |-> "item removed"]
    ELSE [stock |-> SetItem(sd, item,
                            PyInt(Get(sd, item, PyNone).val - qty.val)),
          ret |-> "True", log |-> "info", msg |-> "removed"]

\* remove_item without the test "stock_data[item] < qty"
remove_item_NoStockCheck(sd, item, qty) ==
    IF ~Has(sd, item)
    THEN [stock |-> sd, ret |-> "False", log |-> "warning",
          msg |-> "not found"]
    ELSE IF ~IsInstanceInt(qty) \/ qty.val < 0
    THEN [stock |-> sd, ret |-> "False", log |-> "error",
          msg |-> "quantity invalid"]
    ELSE IF ~IsNumber(Get(sd, item, PyNone))
    THEN [stock |-> sd, ret |-> "False", log |-> "error",
          msg |-> "type mismatch"]
    ELSE IF Get(sd, item, PyNone).val - qty.val <= 0
    THEN [stock |-> DelItem(sd, item), ret |-> "True", log |-> "info",
          msg |-> "item removed"]
    ELSE [stock |-> SetItem(sd, item,
                            PyInt(Get(sd, item, PyNone).val - qty.val)),
          ret |-> "True", log |-> "info", msg |-> "removed"]

\* remove_item deleting the key only below zero ("< 0" for "<= 0")
remove_item_KeepsZero(sd, item, qty) ==
    IF ~Has(sd, item)
    THEN [stock |-> sd, ret |-> "False", log |-> "warning",
          msg |-> "not found"]
    ELSE IF ~IsInstanceInt(qty) \/ qty.val < 0
    THEN [stock |-> sd, ret |-> "False", log |-> "error",
          msg |-> "quantity invalid"]
    ELSE IF ~IsNumber(Get(sd, item, PyNone))
    THEN [stock |-> sd, ret |-> "False", log |-> "error",
          msg |-> "type mismatch"]
    ELSE IF Get(sd, item, PyNone).val < qty.val
    THEN [stock |-> sd, ret |-> "False", log |-> "warning",
          msg |-> "insufficient stock"]
    ELSE IF Get(sd, item, PyNone).val - qty.val < 0
    THEN [stock |-> DelItem(sd, item), ret |-> "True", log |-> "info",
          msg |-> "item removed"]
    ELSE [stock |-> SetItem(sd, item,
                            PyInt(Get(sd, item, PyNone).val - qty.val)),
          ret |-> "True", log |-> "info", msg |-> "removed"]

\* remove_item(item, qty)
remove_item(sd, item, qty) ==
    IF ~Has(sd, item)
    THEN [stock |-> sd, ret |-> "False", log |-> "warning",
          msg |-> "not found"]
    ELSE IF ~IsInstanceInt(qty) \/ qty.val < 0
    THEN [stock |-> sd, ret |-> "False", log |-> "error",
          msg |-> "quantity invalid"]
    ELSE IF ~IsNumber(Get(sd, item, PyNone))
    THEN [stock |-> sd, ret |-> "False", log |-> "error",
          msg |-> "type mismatch"]
    ELSE IF Get(sd, item, PyNone).val < qty.val
    THEN [stock |-> sd, ret |-> "False", log |-> "warning",
          msg |-> "insufficient stock"]
    ELSE IF Get(sd, item, PyNone).val - qty.val <= 0
    THEN [stock |-> DelItem(sd, item), ret |-> "True", log |-> "info",
          msg |-> "item removed"]
    ELSE [stock |-> SetItem(sd, item,
                            PyInt(Get(sd, item, PyNone).val - qty.val)),
          ret |-> "True", log |-> "info", msg |-> "removed"]

\* get_qty(item)
get_qty(sd, item) == Get(sd, item, PyInt(0))

RECURSIVE LowItems(_, _, _)
LowItems(sd, threshold, i) ==
    IF i > Len(sd) THEN <<>>
    ELSE (IF sd[i].value.val < threshold.val THEN <<sd[i].key>> ELSE <<>>)
         \o LowItems(sd, threshold, i + 1)

\* check_low_items(threshold): quantity < threshold raises TypeError when
\* the two are not both numbers
check_low_items(sd, threshold) ==
    IF \E i \in 1..Len(sd) : ~IsNumber(sd[i].value) \/ ~IsNumber(threshold)
    THEN [ret |-> "TypeError", list |-> <<>>]
    ELSE [ret |-> "True", list |-> LowItems(sd, threshold, 1)]

\* a file of the file system: absent, present but not accessible to the
\* process (open fails with PermissionError), or a text
AbsentFile == [kind |-> "absent", text |-> <<>>]
DeniedFile == [kind |-> "denied", text |-> <<>>]
TextFile(text) == [kind |-> "text", text |-> text]

\* load_data that clears the dictionary and leaves out update(data)
load_data_NoUpdate(sd, file) ==
    IF file.kind = "absent"
    THEN [stock |-> <<>>, ret |-> "False", log |-> "warning",
          msg |-> "file not found"]
    ELSE IF file.kind = "denied"
    THEN [stock |-> sd, ret |-> "PermissionError", log |-> "none",
          msg |-> "none"]
    ELSE IF ~JsonLoad(file.text).ok
    THEN [stock |-> sd, ret |-> "False", log |-> "error",
          msg |-> "decode error"]
    ELSE [stock |-> <<>>, ret |-> "True", log |-> "info", msg |-> "loaded"]

\* load_data that clears the dictionary before it opens and decodes the file
load_data_ClearFirst(sd, file) ==
    IF file.kind = "absent"
    THEN [stock |-> <<>>, ret |-> "False", log |-> "warning",
          msg |-> "file not found"]
    ELSE IF file.kind = "denied"
    THEN [stock |-> <<>>, ret |-> "PermissionError", log |-> "none",
          msg |-> "none"]
    ELSE LET data == JsonLoad(file.text)
         IN  IF ~data.ok
             THEN [stock |-> <<>>, ret |-> "False", log |-> "error",
                   msg |-> "decode error"]
             ELSE IF ~data.isdict
             THEN [stock |-> <<>>,
                   ret |-> IF data.scalar.type = "str"
                           THEN "ValueError" ELSE "TypeError",
                   log |-> "none", msg |-> "none"]
             ELSE [stock |-> Update(<<>>, data.obj), ret |-> "True",
                   log |-> "info", msg |-> "loaded"]

\* load_data whose FileNotFoundError handler does not clear the dictionary
load_data_KeepOnMissing(sd, file) ==
    IF file.kind = "absent"
    THEN [stock |-> sd, ret |-> "False", log |-> "warning",
          msg |-> "file not found"]
    ELSE IF file.kind = "denied"
    THEN [stock |-> sd, ret |-> "PermissionError", log |-> "none",
          msg |-> "none"]
    ELSE LET data == JsonLoad(file.text)
         IN  IF ~data.ok
             THEN [stock |-> sd, ret |-> "False", log |-> "error",
                   msg |-> "decode error"]
             ELSE IF ~data.isdict
             THEN [stock |-> <<>>,
                   ret |-> IF data.scalar.type = "str"
                           THEN "ValueError" ELSE "TypeError",
                   log |-> "none", msg |-> "none"]
             ELSE [stock |-> Update(<<>>, data.obj), ret |-> "True",
                   log |-> "info", msg |-> "loaded"]

\* load_data(filename)
load_data(sd, file) ==
    IF file.kind = "absent"
    THEN [stock |-> <<>>, ret |-> "False", log |-> "warning",
          msg |-> "file not found"]
    ELSE IF file.kind = "denied"
    THEN [stock |-> sd, ret |-> "PermissionError", log |-> "none",
          msg |-> "none"]
    ELSE LET data == JsonLoad(file.text)
         IN  IF ~data.ok
             THEN [stock |-> sd, ret |-> "False", log |-> "error",
                   msg |-> "decode error"]
             ELSE IF ~data.isdict
             THEN [stock |-> <<>>,
                   ret |-> IF data.scalar.type = "str"
                           THEN "ValueError" ELSE "TypeError",
                   log |-> "none", msg |-> "none"]
             ELSE [stock |-> Update(<<>>, data.obj), ret |-> "True",
                   log |-> "info", msg |-> "loaded"]

\* save_data opening the file with mode "a": the text is written after what
\* the file held
save_data_Appends(sd, file, written) ==
    IF file.kind = "denied"
    THEN [file |-> file, ret |-> "False", log |-> "error",
          msg |-> "save error"]
    ELSE IF written < Len(JsonDump(sd))
    THEN [file |-> TextFile(file.text \o SubSeq(JsonDump(sd), 1, written)),
          ret |-> "False", log |-> "error", msg |-> "save error"]
    ELSE [file |-> TextFile(file.text \o JsonDump(sd)), ret |-> "True",
          log |-> "info", msg |-> "saved"]

\* save_data(filename): open(filename, "w") truncates the file; written is
\* how many tokens of the text reach the file before the write fails
\* (all of them when it does not fail)
save_data(sd, file, written) ==
    IF file.kind = "denied"
    THEN [file |-> file, ret |-> "False", log |-> "error",
          msg |-> "save error"]
    ELSE IF written < Len(JsonDump(sd))
    THEN [file |-> TextFile(SubSeq(JsonDump(sd), 1, written)),
          ret |-> "False", log |-> "error", msg |-> "save error"]
    ELSE [file |-> TextFile(JsonDump(sd)), ret |-> "True", log |-> "info",
          msg |-> "saved"]

\* ---------------------------------------------------------------- inputs
\* item arguments: two names, the empty string and a value that is no str
Names == {StrItem("a"), StrItem("b")}

Items == Names \cup {StrItem(""), NoneItem}

Qtys == {PyInt(n) : n \in -1..MaxQty} \cup {PyTrue, PyFloat}

\* the <<item, qty>> passed to add_item: a name with every quantity, another
\* item with a quantity that passes the second validation and one that
\* does not
AddCalls ==
    (Names \X Qtys) \cup ((Items \ Names) \X {PyInt(1), PyInt(0 - 1)})

Thresholds == {PyInt(n) : n \in 0..(MaxStock + 1)} \cup {PyNone}

\* the line add_item formats from qty and item (the time stamp left out)
AddedMessage(item, qty) == [text |-> "Added", qty |-> qty, item |-> item]

\* what the caller passes as logs: None (has = FALSE) or a list it owns
NoLogs == [has |-> FALSE, list |-> <<>>]
Collectors ==
    {NoLogs,
     [has |-> TRUE, list |-> <<AddedMessage(StrItem("b"), PyInt(1))>>]}

FileNames == {"inventory.json"}

\* the texts the file may hold when the program starts
InitialTexts ==
    { <<LBrace>>,
      <<DigitTok(5)>>,
      <<StrLit("x")>>,
      <<LBrace, RBrace>>,
      <<LBrace, StrLit("a"), Colon, DigitTok(1), Comma,
        StrLit("a"), Colon, DigitTok(2), RBrace>>,
      <<LBrace, StrLit("a"), Colon, DigitTok(0), RBrace>>,
      <<LBrace, StrLit("a"), Colon, Minus, DigitTok(1), RBrace>>,
      <<LBrace, StrLit("b"), Colon, StrLit("x"), RBrace>>,
      <<LBrace, StrLit("b"), Colon, Space, DigitTok(1), Comma, Space,
        StrLit("a"), Colon, Space, DigitTok(1), RBrace, Newline>> }

InitialFiles == {AbsentFile, DeniedFile} \cup {TextFile(t) : t \in InitialTexts}

\* how much of the text reaches the file: all of it, or, when the write
\* fails, none of it (the file stays as open(filename, "w") truncated it)
WritePoints(sd) == {0, Len(JsonDump(sd))}

\* ----------------------------------------------------------------- state
VARIABLES
    stock_data,   \* the module-level dictionary
    files,        \* the file system: file name -> file
    last          \* the last call: operation, outcome, values handed back

vars == <<stock_data, files, last>>

\* last.file is the file name passed, last.had the number of entries the
\* dictionary held when the call began, last.logs the caller's list after
\* the call (has = FALSE: none passed), last.value what get_qty returned,
\* last.list what check_low_items returned
NoCall ==
    [op |-> "none", ret |-> "none", log |-> "none", msg |-> "none",
     file |-> "", had |-> 0, value |-> PyNone, list |-> <<>>, logs |-> NoLogs]

Called(op) == [NoCall EXCEPT !.op = op, !.had = Len(stock_data)]

RECURSIVE Total(_)
\* the units held by all the items together
Total(d) ==
    IF d = <<>> THEN 0
    ELSE (IF Head(d).value.type = "int" THEN Head(d).value.val ELSE 0)
         + Total(Tail(d))

Init ==
    /\ stock_data = <<>>
    /\ files \in [FileNames -> InitialFiles]
    /\ last = NoCall

AddItem(item, qty, logs) ==
    LET r == add_item(stock_data, item, qty)
    IN  /\ Total(r.stock) <= MaxStock
        /\ stock_data' = r.stock
        /\ last' = [Called("add_item") EXCEPT
                      !.ret = r.ret, !.log = r.log,
                      !.msg = r.msg,
                      !.logs = IF logs.has /\ r.logged
                               THEN [logs EXCEPT !.list =
                                       Append(@, AddedMessage(item, qty))]
                               ELSE logs]
        /\ UNCHANGED files

RemoveItem(item, qty) ==
    LET r == remove_item(stock_data, item, qty)
    IN  /\ stock_data' = r.stock
        /\ last' = [Called("remove_item") EXCEPT
                      !.ret = r.ret, !.log = r.log,
                      !.msg = r.msg]
        /\ UNCHANGED files

\* get_qty written with stock_data.setdefault(item, 0): a query of an absent
\* item inserts it
GetQty_SetDefault(item) ==
    /\ last' = [Called("get_qty") EXCEPT
                  !.ret = "value",
                  !.value = get_qty(stock_data, item)]
    /\ stock_data' = IF Has(stock_data, item) THEN stock_data
                     ELSE Append(stock_data, [key |-> item, value |-> PyInt(0)])
    /\ UNCHANGED files

GetQty(item) ==
    /\ last' = [Called("get_qty") EXCEPT
                  !.ret = "value",
                  !.value = get_qty(stock_data, item)]
    /\ UNCHANGED <<stock_data, files>>

CheckLowItems(threshold) ==
    LET r == check_low_items(stock_data, threshold)
    IN  /\ last' = [Called("check_low_items") EXCEPT
                      !.ret = r.ret,
                      !.list = r.list]
        /\ UNCHANGED <<stock_data, files>>

LoadData(f) ==
    LET r == load_data(stock_data, files[f])
    IN  /\ stock_data' = r.stock
        /\ last' = [Called("load_data") EXCEPT
                      !.file = f, !.ret = r.ret, !.log = r.log,
                      !.msg = r.msg]
        /\ UNCHANGED files

SaveData(f, written) ==
    LET r == save_data(stock_data, files[f], written)
    IN  /\ files' = [files EXCEPT ![f] = r.file]
        /\ last' = [Called("save_data") EXCEPT
                      !.file = f, !.ret = r.ret, !.log = r.log,
                      !.msg = r.msg]
        /\ UNCHANGED stock_data

Next ==
    \/ \E call \in AddCalls, logs \in Collectors :
         AddItem(call[1], call[2], logs)
    \/ \E item \in Items, qty \in Qtys : RemoveItem(item, qty)
    \/ \E item \in Items : GetQty(item)
    \/ \E threshold \in Thresholds : CheckLowItems(threshold)
    \/ \E f \in FileNames : LoadData(f)
    \/ \E f \in FileNames, written \in WritePoints(stock_data) :
         SaveData(f, written)

Spec == Init /\ [][Next]_vars

\* the files that hold no value other than non-negative integers: a JSON
\* object of such values, a text that does not decode, or no text at all
NonNegativeFiles ==
    {f \in InitialFiles :
        f.kind = "text" /\ JsonLoad(f.text).ok
        => /\ JsonLoad(f.text).isdict
           /\ \A i \in 1..Len(JsonLoad(f.text).obj) :
                 /\ JsonLoad(f.text).obj[i].value.type = "int"
                 /\ JsonLoad(f.text).obj[i].value.val >= 0}

\* the program started next to such a file
InitNonNegative ==
    /\ stock_data = <<>>
    /\ files \in [FileNames -> NonNegativeFiles]
    /\ last = NoCall

SpecNonNegative == InitNonNegative /\ [][Next]_vars

\* ---------------------------------------------------------------- claims
\* what the claims call a quantity, a name and a completed call
NonEmptyString(item) == item.type = "str" /\ item.name # ""

NonNegativeInteger(qty) == qty.type \in {"int", "bool"} /\ qty.val >= 0

OnlyNonNegativeIntegers(d) ==
    \A i \in 1..Len(d) : d[i].value.type = "int" /\ d[i].value.val >= 0

Returned == {"none", "True", "False", "value"}

\* C1: every item present in the store has an integer quantity >= 1; no
\* entry with quantity 0 or less is ever present.
C1_QuantitiesAtLeastOne ==
    \A i \in 1..Len(stock_data) :
        stock_data[i].value.type = "int" /\ stock_data[i].value.val >= 1

\* C2: for a non-empty string item and an integer qty >= 0, in any reachable
\* store, add returns success and get_quantity(item) afterwards is the
\* quantity it reported before (0 if absent) plus qty.
C2_AddThenGetQuantity ==
    [][last'.op = "add_item" =>
        \A call \in AddCalls, logs \in Collectors :
            ( /\ NonEmptyString(call[1])
              /\ call[2].type = "int" /\ call[2].val >= 0
              /\ AddItem(call[1], call[2], logs) )
            => /\ last'.ret = "True"
               /\ get_qty(stock_data', call[1])
                    = PyInt(get_qty(stock_data, call[1]).val
                            + call[2].val)]_vars

\* C3: remove of a present item with qty greater than its current stock
\* returns failure and leaves the whole store unchanged.
C3_RemoveTooManyChangesNothing ==
    [][last'.op = "remove_item" =>
        \A item \in Items, qty \in Qtys :
            ( /\ Has(stock_data, item)
              /\ Get(stock_data, item, PyNone).type = "int"
              /\ qty.type \in {"int", "bool"}
              /\ qty.val > Get(stock_data, item, PyNone).val
              /\ RemoveItem(item, qty) )
            => last'.ret = "False" /\ stock_data' = stock_data]_vars

C3_Witness ==
    /\ last.op = "remove_item" /\ last.msg = "insufficient stock"
    /\ last.ret = "False"
    /\ \E i \in 1..Len(stock_data) : stock_data[i].value = PyInt(1)

\* C4: a successful remove with 0 <= qty <= current stock stores the
\* decremented value when it is > 0 and deletes the key when it is <= 0,
\* after which get_quantity(item) is 0.
C4_RemoveDecrementsOrDeletes ==
    [][last'.op = "remove_item" =>
        \A item \in Items, qty \in Qtys :
            ( /\ last'.ret = "True"
              /\ Has(stock_data, item)
              /\ 0 <= qty.val
              /\ qty.val <= Get(stock_data, item, PyNone).val
              /\ RemoveItem(item, qty) )
            => LET rest == Get(stock_data, item, PyNone).val - qty.val
               IN  IF rest > 0
                   THEN /\ Has(stock_data', item)
                        /\ get_qty(stock_data', item) = PyInt(rest)
                   ELSE /\ item \notin Keys(stock_data')
                        /\ get_qty(stock_data', item) = PyInt(0)]_vars

C4_Witness ==
    /\ last.op = "remove_item" /\ last.ret = "True"
    /\ last.msg = "item removed"
    /\ last.had = 2 /\ Len(stock_data) = 1

\* C5: for a store of non-negative integer quantities, a successful save(f)
\* immediately followed by load(f) returns success and leaves a store with
\* the same keys and the same quantities.
C5_SaveLoadRoundTrip ==
    [][( /\ last.op = "save_data" /\ last.ret = "True"
         /\ OnlyNonNegativeIntegers(stock_data)
         /\ last'.op = "load_data" /\ last'.file = last.file
         /\ LoadData(last.file) )
       => last'.ret = "True" /\ stock_data' = stock_data]_vars

C5_Witness ==
    /\ last.op = "load_data" /\ last.ret = "True" /\ last.had = 2
    /\ Len(stock_data) = 2 /\ OnlyNonNegativeIntegers(stock_data)
    /\ files[last.file] = TextFile(JsonDump(stock_data))

\* C6: every core operation, in any reachable state and with any input,
\* completes by returning its status or result; no failure reaches the
\* caller as an uncaught fault.
C6_NoUncaughtFault == last.ret \in Returned

\* C7: a load that succeeds leaves the store equal to the loaded mapping, and
\* load never finishes with the store cleared but not populated from a
\* source that exists and parsed.
C7_LoadReplacesAtomically ==
    [][last'.op = "load_data" =>
        \A f \in FileNames :
            ( /\ LoadData(f)
              /\ files[f].kind = "text"
              /\ JsonLoad(files[f].text).ok )
            => \/ stock_data' = stock_data /\ last'.ret # "True"
               \/ /\ last'.ret = "True"
                  /\ JsonLoad(files[f].text).isdict
                  /\ stock_data' = JsonLoad(files[f].text).obj]_vars

\* C8: load on a source that exists but does not hold valid JSON returns
\* failure and leaves the store exactly as it was.
C8_LoadInvalidJsonChangesNothing ==
    [][last'.op = "load_data" =>
        \A f \in FileNames :
            ( /\ files[f].kind = "text"
              /\ ~JsonLoad(files[f].text).ok
              /\ LoadData(f) )
            => last'.ret = "False" /\ stock_data' = stock_data]_vars

C8_Witness ==
    /\ last.op = "load_data" /\ last.ret = "False"
    /\ last.msg = "decode error"
    /\ last.had = 2 /\ Len(stock_data) = 2

\* C9: load on a nonexistent source, from any store, leaves the store empty
\* and returns the non-fatal "not found" failure; it does not raise.
C9_LoadMissingFileEmptiesStore ==
    [][last'.op = "load_data" =>
        \A f \in FileNames :
            (files[f].kind = "absent" /\ LoadData(f))
            => /\ stock_data' = <<>>
               /\ last'.ret = "False"
               /\ last'.log = "warning" /\ last'.msg = "file not found"]_vars

C9_Witness ==
    /\ last.op = "load_data" /\ last.msg = "file not found"
    /\ last.had = 2 /\ stock_data = <<>>

\* the <<item, qty>> pairs that C10 is about
InvalidAddCalls ==
    {call \in AddCalls :
        ~NonEmptyString(call[1]) \/ ~NonNegativeInteger(call[2])}

\* C10: add with an item that is not a non-empty string, or a quantity that
\* is not an integer >= 0, returns failure, leaves the store unchanged and
\* appends nothing to the caller's log collector.
C10_InvalidAddChangesNothing ==
    [][last'.op = "add_item" =>
        \A call \in InvalidAddCalls, logs \in Collectors :
            (logs.has = last'.logs.has /\ AddItem(call[1], call[2], logs))
            => /\ last'.ret = "False"
               /\ stock_data' = stock_data
               /\ last'.logs = logs]_vars

C10_Witness ==
    /\ last.op = "add_item" /\ last.ret = "False"
    /\ last.msg = "quantity invalid"
    /\ last.logs.has /\ Len(last.logs.list) = 1
    /\ Len(stock_data) = 2

\* the keys of d, in the order of d, whose quantity is below threshold
Below(d, threshold) ==
    LET low == SelectSeq(d, LAMBDA e : e.value.val < threshold.val)
    IN  [i \in 1..Len(low) |-> low[i].key]

\* C11: check_low_items(threshold) returns exactly the items whose quantity
\* is strictly less than threshold, each once, in the store's insertion
\* order as it stands after any sequence of add, remove and load, and leaves
\* the store unchanged.
C11_LowItemsInInsertionOrder ==
    [][last'.op = "check_low_items" =>
        \A threshold \in Thresholds :
            (threshold.type = "int" /\ CheckLowItems(threshold))
            => /\ last'.ret = "True"
               /\ last'.list = Below(stock_data, threshold)
               /\ stock_data' = stock_data]_vars

\* C12: get_quantity(item) returns the item's current quantity when the item
\* is present and 0 when it is absent, never fails, and leaves the store
\* unchanged; it does not insert the queried key.
C12_GetQuantityReadsOnly ==
    [][last'.op = "get_qty" =>
        \A item \in Items :
            GetQty(item)
            => /\ last'.ret = "value"
               /\ \/ \E i \in 1..Len(stock_data) :
                        /\ stock_data[i].key = item
                        /\ last'.value = stock_data[i].value
                  \/ /\ item \notin Keys(stock_data)
                     /\ last'.value = PyInt(0)
               /\ stock_data' = stock_data
               /\ item \in Keys(stock_data') <=> item \in Keys(stock_data)]_vars

C12_Witness ==
    /\ last.op = "get_qty" /\ last.ret = "value"
    /\ last.value = PyInt(0)
    /\ Len(stock_data) = 1 /\ stock_data[1].value = PyInt(2)

\* C13: remove checks the item's existence first and the quantity second:
\* on an absent item it fails with the not-found outcome whatever the
\* quantity, on a present item with a negative or non-integer quantity it
\* fails with the validation outcome, and in both cases the store is
\* unchanged.
C13_RemoveChecksItemThenQuantity ==
    [][last'.op = "remove_item" =>
        \A item \in Items, qty \in Qtys :
            ( /\ item \notin Keys(stock_data) \/ ~NonNegativeInteger(qty)
              /\ RemoveItem(item, qty) )
            => /\ last'.ret = "False"
               /\ stock_data' = stock_data
               /\ IF item \notin Keys(stock_data)
                  THEN last'.log = "warning" /\ last'.msg = "not found"
                  ELSE last'.log = "error"
                       /\ last'.msg = "quantity invalid"]_vars

C13_Witness ==
    /\ last.op = "remove_item" /\ last.ret = "False"
    /\ last.msg = "quantity invalid"
    /\ last.had = 1 /\ Len(stock_data) = 1

\* C14: a successful add appends exactly one log entry recording the
\* operation to the caller-supplied log collector, keeping the entries
\* already there in their order; a remove, successful or failed, touches no
\* collector.
C14_AddAppendsOneLogEntry ==
    [][ /\ ( last'.op = "add_item" /\ last'.ret = "True" /\ last'.logs.has )
           => \A call \in AddCalls, logs \in Collectors :
                  (logs.has /\ AddItem(call[1], call[2], logs))
                  => LET before == logs.list
                         after == last'.logs.list
                     IN  /\ Len(after) = Len(before) + 1
                         /\ SubSeq(after, 1, Len(before)) = before
                         /\ after[Len(after)].text = "Added"
                         /\ after[Len(after)].item = call[1]
                         /\ after[Len(after)].qty = call[2]
        /\ last'.op = "remove_item" => ~last'.logs.has ]_vars

C14_Witness ==
    /\ last.op = "add_item" /\ last.ret = "True"
    /\ last.logs.has /\ Len(last.logs.list) = 2
    /\ last.logs.list[2].item = StrItem("a")
    /\ last.had = 1 /\ Len(stock_data) = 2

\* C15: for every call of add or remove in any reachable state, a failure
\* return implies the store is identical to the store before the call, and
\* a success return implies get_quantity(item) afterwards equals
\* get_quantity(item) before plus qty (add) or minus qty (remove), an absent
\* item counting as 0.
C15_FailureKeepsSuccessShifts ==
    [][ /\ ( last'.op \in {"add_item", "remove_item"} /\ last'.ret = "False" )
           => stock_data' = stock_data
        /\ ( last'.op = "add_item" /\ last'.ret = "True" )
           => \A call \in AddCalls, logs \in Collectors :
                  (logs.has = last'.logs.has
                   /\ AddItem(call[1], call[2], logs))
                  => get_qty(stock_data', call[1])
                       = PyInt(get_qty(stock_data, call[1]).val
                               + call[2].val)
        /\ ( last'.op = "remove_item" /\ last'.ret = "True" )
           => \A item \in Items, qty \in Qtys :
                  RemoveItem(item, qty)
                  => get_qty(stock_data', item)
                       = PyInt(get_qty(stock_data, item).val
                               - qty.val) ]_vars

C15_Witness ==
    /\ last.op = "remove_item" /\ last.ret = "True" /\ last.msg = "removed"
    /\ last.had = 2 /\ Len(stock_data) = 2
    /\ \E i \in 1..2 : stock_data[i].value = PyInt(1)

\* the items other than item have the same presence and the same quantity
\* in d and in e
OthersSame(d, e, item) ==
    \A k \in (Keys(d) \cup Keys(e)) \ {item} :
        /\ k \in Keys(d) /\ k \in Keys(e)
        /\ \E i \in 1..Len(d), j \in 1..Len(e) :
              d[i].key = k /\ e[j].key = k /\ d[i].value = e[j].value

\* C16: add(item, qty) and remove(item, qty), whether they succeed or fail,
\* leave the presence and the quantity of every other item in the store
\* unchanged.
C16_OtherItemsUntouched ==
    [][ /\ last'.op = "add_item" =>
            \/ stock_data' = stock_data
            \/ \A call \in AddCalls, logs \in Collectors :
                   (logs.has = last'.logs.has
                    /\ AddItem(call[1], call[2], logs))
                   => OthersSame(stock_data, stock_data', call[1])
        /\ last'.op = "remove_item" =>
            \/ stock_data' = stock_data
            \/ \A item \in Items, qty \in Qtys :
                   RemoveItem(item, qty)
                   => OthersSame(stock_data, stock_data', item) ]_vars

C16_Witness ==
    /\ last.op = "remove_item" /\ last.ret = "True"
    /\ last.msg = "item removed" /\ last.had = 2
    /\ stock_data = <<[key |-> StrItem("b"), value |-> PyInt(1)]>>

\* C17: in every state reachable from the empty store by add, remove, save
\* and load of files whose values are non-negative integers, no stored
\* quantity is negative, and get_quantity never returns a negative number.
C17_NoNegativeQuantity ==
    /\ \A i \in 1..Len(stock_data) :
          stock_data[i].value.type = "int" /\ stock_data[i].value.val >= 0
    /\ last.op = "get_qty"
          => last.value.type = "int" /\ last.value.val >= 0

C17_Witness ==
    /\ last.op = "get_qty" /\ last.value = PyInt(0)
    /\ last.had = 2
    /\ stock_data = <<[key |-> StrItem("a"), value |-> PyInt(0)],
                      [key |-> StrItem("b"), value |-> PyInt(0)]>>

\* C18: save never changes the store, whether the write succeeds or fails;
\* after a successful save(f) the content of f is exactly the store at the
\* time of the call, with nothing of f's prior content remaining; add and
\* remove calls do not change f.
C18_SaveWritesTheStoreOnly ==
    [][ /\ last'.op = "save_data"
           => /\ stock_data' = stock_data
              /\ last'.ret = "True"
                 => /\ files'[last'.file].kind = "text"
                    /\ files'[last'.file].text = JsonDump(stock_data)
                    /\ JsonLoad(files'[last'.file].text).ok
                    /\ JsonLoad(files'[last'.file].text).isdict
                    /\ JsonLoad(files'[last'.file].text).obj = stock_data
        /\ last'.op \in {"add_item", "remove_item"} => files' = files ]_vars

C18_Witness ==
    /\ last.op = "save_data" /\ last.ret = "True"
    /\ last.had = 2 /\ Len(stock_data) = 2
    /\ files[last.file].kind = "text"
    /\ JsonLoad(files[last.file].text).obj = stock_data

====
